---- MODULE Spec2Model ----
(***************************************************************************)
(* EME chatbot: the input field, the chatbot container (session           *)
(* controller), the ChatAPI request orchestrator, the error handler and   *)
(* the StorageManager, modelled from the TypeScript sources.              *)
(*                                                                         *)
(* Text is a sequence of one-character strings.  The production build is  *)
(* modelled (import.meta.env.DEV false): the container calls              *)
(* ChatAPI.sendMessage, never sendMessageMock.                             *)
(***************************************************************************)
EXTENDS Integers, Sequences, FiniteSets, TLC

VARIABLES
  currentValue,       \* InputField.currentValue
  textareaDisabled,   \* InputField.textarea.disabled
  sendButtonDisabled, \* InputField.sendButton.disabled
  onSendHandler,      \* InputField.onSendHandler is set
  messages,           \* ChatbotContainer.chatState.messages
  sessionId,          \* ChatbotContainer.chatState.sessionId
  isLoading,          \* ChatbotContainer.isLoading
  awaiting,           \* the sendMessage call handleUserMessage is suspended on (0: none)
  localStorage,       \* the record under StorageManager.storageKey (NoRecord: absent)
  abortController,    \* ChatAPI.abortController (0: undefined)
  sends,              \* the sendMessage invocations of the ChatAPI instance
  nextSend,           \* number of sendMessage invocations so far
  nextController,     \* number of AbortControllers created so far
  nextId,             \* number of uuidv4() message ids drawn so far
  nextSession,        \* number of session ids generated so far
  errorLog,           \* ErrorHandler.errorLog
  submits,            \* number of handleUserMessage calls so far
  lastCall,           \* whether the container was loading at the latest handleUserMessage
                      \* call
  returned            \* the latest call of saveChat, loadChat or clearChat made by a direct
                      \* caller of the StorageManager: its argument, what was stored
                      \* before it and what it returned

vars == <<currentValue, textareaDisabled, sendButtonDisabled, onSendHandler,
          messages, sessionId, isLoading, awaiting, localStorage,
          abortController, sends, nextSend, nextController, nextId,
          nextSession, errorLog, submits, lastCall, returned>>

inputVars == <<currentValue, textareaDisabled, sendButtonDisabled, onSendHandler>>
chatVars  == <<messages, sessionId, isLoading, awaiting, nextId, nextSession, errorLog>>
apiVars   == <<abortController, sends, nextSend, nextController>>

----------------------------------------------------------------------------
(* Bounds of the model *)

\* the validator's limit (4000 in the container), scaled down
MaxLength == 6
\* StorageManager.maxStorageSize (5 MB), scaled down to characters
MaxStorageSize == 14
\* the number of most recent messages cleanOldMessages keeps (50), scaled down
KeepRecent == 2
\* how many times a run may call handleUserMessage
MaxSubmits == 2
\* how many message ids (uuidv4) a run may draw
MaxIds == 5
\* how many sendMessage calls a direct caller of the ChatAPI may make
MaxClientSends == 2
\* errors handed to the ErrorHandler by a direct caller
MaxErrors == 1
\* ErrorHandler.maxLogSize, 100 in the source
maxLogSize == 2
\* the largest limit a validator is constructed with (from 9 on, a count
\* lies strictly between the warning and the critical threshold)
MaxLimit == 10

\* ChatAPI.config.maxRetries as the container is configured
maxRetries == 3

NoRecord == [absent |-> TRUE]

----------------------------------------------------------------------------
(* Text helpers *)

SetMin(S) == CHOOSE x \in S : \A y \in S : x <= y
SetMax(S) == CHOOSE x \in S : \A y \in S : x >= y

UpperLetters == <<"A","B","C","D","E","F","G","H","I","J","K","L","M",
                  "N","O","P","Q","R","S","T","U","V","W","X","Y","Z">>
LowerLetters == <<"a","b","c","d","e","f","g","h","i","j","k","l","m",
                  "n","o","p","q","r","s","t","u","v","w","x","y","z">>
Digits == {"0","1","2","3","4","5","6","7","8","9"}

UpperSet == {UpperLetters[i] : i \in 1..26}
LowerSet == {LowerLetters[i] : i \in 1..26}
LowerOf  == [c \in UpperSet |-> LowerLetters[CHOOSE i \in 1..26 : UpperLetters[i] = c]]

\* String.prototype.toLowerCase on one character (the i flag of a regular expression)
ToLower(c) == IF c \in UpperSet THEN LowerOf[c] ELSE c

IsLetter(c) == c \in UpperSet \/ c \in LowerSet
\* \w of a JavaScript regular expression
IsWordChar(c) == IsLetter(c) \/ c \in Digits \/ c = "_"
\* \s of a JavaScript regular expression, and what String.prototype.trim removes
IsSpace(c) == c \in {" ", "\n", "\t", "\r"}
\* [\u0000-\u001F\u007F-\u009F]
IsControl(c) == c \in {"\n", "\t", "\r"}

\* String.prototype.trim
Trim(s) ==
  LET keep == {i \in 1..Len(s) : ~IsSpace(s[i])}
  IN IF keep = {} THEN <<>> ELSE SubSeq(s, SetMin(keep), SetMax(keep))

\* the literal lit occurs in s at position i, ignoring case
MatchAt(s, i, lit) ==
  /\ i >= 1
  /\ i + Len(lit) - 1 <= Len(s)
  /\ \A k \in 1..Len(lit) : ToLower(s[i + k - 1]) = lit[k]

\* the position after a maximal run of characters satisfying the class, from i
RECURSIVE SkipSpaces(_, _)
SkipSpaces(s, i) ==
  IF i <= Len(s) /\ IsSpace(s[i]) THEN SkipSpaces(s, i + 1) ELSE i

RECURSIVE SkipWord(_, _)
SkipWord(s, i) ==
  IF i <= Len(s) /\ IsWordChar(s[i]) THEN SkipWord(s, i + 1) ELSE i

\* \b after a literal that ends in a word character
BoundaryAt(s, i) == i > Len(s) \/ ~IsWordChar(s[i])

\* literal \b
TagPattern(s, lit) ==
  \E i \in 1..Len(s) : MatchAt(s, i, lit) /\ BoundaryAt(s, i + Len(lit))

\* literal \s* \(
CallPattern(s, lit) ==
  \E i \in 1..Len(s) :
    /\ MatchAt(s, i, lit)
    /\ LET j == SkipSpaces(s, i + Len(lit)) IN j <= Len(s) /\ s[j] = "("

\* on\w+\s*=   (\w+ may give characters back, so any split of the word run works)
HandlerPattern(s) ==
  \E i \in 1..Len(s) :
    /\ MatchAt(s, i, <<"o","n">>)
    /\ LET w == SkipWord(s, i + 2)
       IN /\ w > i + 2
          /\ LET j == SkipSpaces(s, w) IN j <= Len(s) /\ s[j] = "="

\* <script\b ... </script>
ScriptPattern(s) ==
  \E i \in 1..Len(s) :
    /\ MatchAt(s, i, <<"<","s","c","r","i","p","t">>)
    /\ BoundaryAt(s, i + 7)
    /\ \E j \in (i + 7)..Len(s) : MatchAt(s, j, <<"<","/","s","c","r","i","p","t",">">>)

detectXSSPatterns(content) ==
  /\ content # <<>>
  /\ \/ ScriptPattern(content)
     \/ \E i \in 1..Len(content) : MatchAt(content, i, <<"j","a","v","a","s","c","r","i","p","t",":">>)
     \/ HandlerPattern(content)
     \/ TagPattern(content, <<"<","i","f","r","a","m","e">>)
     \/ TagPattern(content, <<"<","o","b","j","e","c","t">>)
     \/ TagPattern(content, <<"<","e","m","b","e","d">>)
     \/ TagPattern(content, <<"<","f","o","r","m">>)
     \/ CallPattern(content, <<"e","x","p","r","e","s","s","i","o","n">>)
     \/ CallPattern(content, <<"u","r","l">>)
     \/ CallPattern(content, <<"i","m","p","o","r","t">>)

----------------------------------------------------------------------------
(* Sanitization (utils/sanitization) *)

\* String.prototype.replace(/lit/gi, ''): one left-to-right pass
RECURSIVE RemoveAll(_, _, _)
RemoveAll(s, i, lit) ==
  IF i > Len(s) THEN <<>>
  ELSE IF MatchAt(s, i, lit) THEN RemoveAll(s, i + Len(lit), lit)
  ELSE <<s[i]>> \o RemoveAll(s, i + 1, lit)

RemoveControl(s) == SelectSeq(s, LAMBDA c : ~IsControl(c))

\* the tag name that starts at position i (after '<' or '</'), lower-cased
RECURSIVE TagName(_, _)
TagName(s, i) ==
  IF i <= Len(s) /\ IsWordChar(s[i]) THEN <<ToLower(s[i])>> \o TagName(s, i + 1) ELSE <<>>

\* DOMPurify.sanitize(s, {ALLOWED_TAGS: allowed, ALLOWED_ATTR: [], KEEP_CONTENT: true}):
\* a tag runs from '<' + letter (or '</' + letter) to the next '>'; an allowed
\* tag is kept without attributes, any other tag is removed and its content
\* kept (the content of a script element is removed with it); an unterminated
\* tag swallows the rest of the input; the parser decodes the character
\* references &amp; &lt; &gt; (lower case, with or without the semicolon) to
\* text; '<', '>' and '&' that are text are serialized as entities.
RECURSIVE DOMPurifySanitize(_, _, _)
DOMPurifySanitize(s, i, allowed) ==
  IF i > Len(s) THEN <<>>
  ELSE IF s[i] = "<" THEN
    LET closing == i + 1 <= Len(s) /\ s[i + 1] = "/"
        n       == IF closing THEN i + 2 ELSE i + 1
        isTag   == n <= Len(s) /\ IsLetter(s[n])
        ends    == {j \in n..Len(s) : s[j] = ">"}
    IN IF ~isTag THEN <<"&","l","t",";">> \o DOMPurifySanitize(s, i + 1, allowed)
       ELSE IF ends = {} THEN <<>>
       ELSE LET j    == SetMin(ends)
                name == TagName(s, n)
            IN IF name \in allowed
               THEN (IF closing THEN <<"<","/">> ELSE <<"<">>) \o name \o <<">">>
                      \o DOMPurifySanitize(s, j + 1, allowed)
               ELSE IF name = <<"s","c","r","i","p","t">> /\ ~closing
               THEN LET close == {k \in (j + 1)..Len(s) :
                                    MatchAt(s, k, <<"<","/","s","c","r","i","p","t",">">>)}
                    IN IF close = {} THEN <<>>
                       ELSE DOMPurifySanitize(s, SetMin(close) + 9, allowed)
               ELSE DOMPurifySanitize(s, j + 1, allowed)
  ELSE IF s[i] = ">" THEN <<"&","g","t",";">> \o DOMPurifySanitize(s, i + 1, allowed)
  ELSE IF s[i] = "&" THEN
    LET rest == SubSeq(s, i + 1, Len(s))
        ref  == IF Len(rest) >= 3 /\ SubSeq(rest, 1, 3) = <<"a","m","p">> THEN 3
                ELSE IF Len(rest) >= 2 /\ SubSeq(rest, 1, 2) \in { <<"l","t">>, <<"g","t">> }
                THEN 2 ELSE 0
        semi == IF ref > 0 /\ Len(rest) > ref /\ rest[ref + 1] = ";" THEN 1 ELSE 0
    IN (IF ref = 0 THEN <<"&","a","m","p",";">>
        ELSE <<"&">> \o SubSeq(rest, 1, ref) \o <<";">>)
         \o DOMPurifySanitize(s, i + 1 + ref + semi, allowed)
  ELSE <<s[i]>> \o DOMPurifySanitize(s, i + 1, allowed)

UserAllowedTags == {<<"p">>, <<"b","r">>}

\* ALLOWED_TAGS of configureDOMPurify
ConfiguredTags ==
  { <<"p">>, <<"b","r">>, <<"s","t","r","o","n","g">>, <<"e","m">>, <<"u">>, <<"i">>,
    <<"b">>, <<"u","l">>, <<"o","l">>, <<"l","i">>,
    <<"b","l","o","c","k","q","u","o","t","e">>, <<"c","o","d","e">>, <<"p","r","e">>,
    <<"h","1">>, <<"h","2">>, <<"h","3">>, <<"h","4">>, <<"h","5">>, <<"h","6">>,
    <<"a">>, <<"s","p","a","n">>, <<"d","i","v">> }

\* sanitizeAIResponse, for content whose tags carry no attributes
sanitizeAIResponse(content) ==
  IF content = <<>> THEN <<>> ELSE DOMPurifySanitize(content, 1, ConfiguredTags)

sanitizeUserInput(input) ==
  IF input = <<>> THEN <<>>
  ELSE LET t  == Trim(input)
           c  == RemoveControl(t)
           j  == RemoveAll(c, 1, <<"j","a","v","a","s","c","r","i","p","t",":">>)
           d  == RemoveAll(j, 1, <<"d","a","t","a",":">>)
           v  == RemoveAll(d, 1, <<"v","b","s","c","r","i","p","t",":">>)
       IN DOMPurifySanitize(v, 1, UserAllowedTags)

----------------------------------------------------------------------------
(* InputValidator, constructed with maxLength = MaxLength *)

\* Math.floor(maxLength * 0.875) and Math.floor(maxLength * 0.95)
warningThreshold  == (MaxLength * 875) \div 1000
criticalThreshold == (MaxLength * 95) \div 100
\* the line length hasVeryLongLines warns about
LongLine == 200

isEmpty(input) == input = <<>> \/ Trim(input) = <<>>

\* a run of at least n characters of the class starts somewhere in s
SpaceRun(s, n) ==
  \E i \in 1..Len(s) : i + n - 1 <= Len(s) /\ \A k \in i..(i + n - 1) : IsSpace(s[k])
NewlineRun(s, n) ==
  \E i \in 1..Len(s) : i + n - 1 <= Len(s) /\ \A k \in i..(i + n - 1) : s[k] = "\n"

hasExcessiveWhitespace(input) ==
  \/ SpaceRun(input, 4)
  \/ NewlineRun(input, 3)
  \/ Cardinality({i \in 1..Len(input) : IsSpace(input[i])}) * 10 > 3 * Len(input)

\* some line (maximal run without a newline) is longer than LongLine
hasVeryLongLines(input) ==
  \E i \in 1..Len(input) :
    /\ i + LongLine <= Len(input)
    /\ \A k \in i..(i + LongLine) : input[k] # "\n"

\* a validate that does not look for unsafe content
validateIgnoringUnsafe(input) ==
  IF input = <<>>
  THEN [isValid |-> FALSE, errors |-> <<"Input must be a valid string">>,
        warnings |-> <<>>, characterCount |-> 0, canSend |-> FALSE]
  ELSE
    LET characterCount == Len(input)
        e1 == IF isEmpty(input) THEN <<"Message cannot be empty">> ELSE <<>>
        e2 == IF characterCount > MaxLength
              THEN <<"Message exceeds maximum length">> ELSE <<>>
        w2 == IF characterCount > MaxLength THEN <<>>
              ELSE IF characterCount >= criticalThreshold
              THEN <<"Approaching character limit">>
              ELSE IF characterCount >= warningThreshold
              THEN <<"Character limit warning">> ELSE <<>>
        e3 == IF detectXSSPatterns(input)
              THEN <<"Message contains potentially unsafe content">> ELSE <<>>
        w3 == IF hasExcessiveWhitespace(input)
              THEN <<"Message contains excessive whitespace">> ELSE <<>>
        w4 == IF hasVeryLongLines(input)
              THEN <<"Message contains very long lines">> ELSE <<>>
        errors  == e1 \o e2
        isValid == errors = <<>>
    IN [isValid |-> isValid, errors |-> errors, warnings |-> w2 \o w3 \o w4,
        characterCount |-> characterCount,
        canSend |-> isValid /\ ~isEmpty(input)]

\* a validate that refuses an input of exactly the maximum length
validateStrictLimit(input) ==
  IF input = <<>>
  THEN [isValid |-> FALSE, errors |-> <<"Input must be a valid string">>,
        warnings |-> <<>>, characterCount |-> 0, canSend |-> FALSE]
  ELSE
    LET characterCount == Len(input)
        e1 == IF isEmpty(input) THEN <<"Message cannot be empty">> ELSE <<>>
        e2 == IF characterCount >= MaxLength
              THEN <<"Message exceeds maximum length">> ELSE <<>>
        w2 == IF characterCount > MaxLength THEN <<>>
              ELSE IF characterCount >= criticalThreshold
              THEN <<"Approaching character limit">>
              ELSE IF characterCount >= warningThreshold
              THEN <<"Character limit warning">> ELSE <<>>
        e3 == IF detectXSSPatterns(input)
              THEN <<"Message contains potentially unsafe content">> ELSE <<>>
        w3 == IF hasExcessiveWhitespace(input)
              THEN <<"Message contains excessive whitespace">> ELSE <<>>
        w4 == IF hasVeryLongLines(input)
              THEN <<"Message contains very long lines">> ELSE <<>>
        errors  == e1 \o e2 \o e3
        isValid == errors = <<>>
    IN [isValid |-> isValid, errors |-> errors, warnings |-> w2 \o w3 \o w4,
        characterCount |-> characterCount,
        canSend |-> isValid /\ ~isEmpty(input)]

validate(input) ==
  IF input = <<>>
  THEN [isValid |-> FALSE, errors |-> <<"Input must be a valid string">>,
        warnings |-> <<>>, characterCount |-> 0, canSend |-> FALSE]
  ELSE
    LET characterCount == Len(input)
        e1 == IF isEmpty(input) THEN <<"Message cannot be empty">> ELSE <<>>
        e2 == IF characterCount > MaxLength
              THEN <<"Message exceeds maximum length">> ELSE <<>>
        w2 == IF characterCount > MaxLength THEN <<>>
              ELSE IF characterCount >= criticalThreshold
              THEN <<"Approaching character limit">>
              ELSE IF characterCount >= warningThreshold
              THEN <<"Character limit warning">> ELSE <<>>
        e3 == IF detectXSSPatterns(input)
              THEN <<"Message contains potentially unsafe content">> ELSE <<>>
        w3 == IF hasExcessiveWhitespace(input)
              THEN <<"Message contains excessive whitespace">> ELSE <<>>
        w4 == IF hasVeryLongLines(input)
              THEN <<"Message contains very long lines">> ELSE <<>>
        errors  == e1 \o e2 \o e3
        isValid == errors = <<>>
    IN [isValid |-> isValid, errors |-> errors, warnings |-> w2 \o w3 \o w4,
        characterCount |-> characterCount,
        canSend |-> isValid /\ ~isEmpty(input)]

canSend(input) == validate(input).canSend

\* the contexts validateForContext knows
Contexts == { "general", "search", "feedback" }

validateForContext(input, context) ==
  LET baseResult == validate(input)
  IN IF context = "search" /\ Len(Trim(input)) < 2
     THEN [baseResult EXCEPT
             !.errors = Append(@, "Search query must be at least 2 characters long"),
             !.canSend = FALSE]
     ELSE IF context = "feedback" /\ Len(Trim(input)) < 10
     THEN [baseResult EXCEPT
             !.warnings = Append(@, "Feedback should be at least 10 characters for meaningful input")]
     ELSE baseResult

\* the thresholds the constructor computes for a validator of the given limit
warningThresholdOf(maxLength)  == (maxLength * 875) \div 1000
criticalThresholdOf(maxLength) == (maxLength * 95) \div 100

\* getCharacterCountStatus with a limit that is itself over the limit
getCharacterCountStatusStrict(maxLength, count) ==
  IF count >= maxLength THEN "exceeded"
  ELSE IF count >= criticalThresholdOf(maxLength) THEN "critical"
  ELSE IF count >= warningThresholdOf(maxLength) THEN "warning"
  ELSE "normal"

\* getCharacterCountStatus of a validator constructed with maxLength
getCharacterCountStatus(maxLength, count) ==
  IF count > maxLength THEN "exceeded"
  ELSE IF count >= criticalThresholdOf(maxLength) THEN "critical"
  ELSE IF count >= warningThresholdOf(maxLength) THEN "warning"
  ELSE "normal"

\* replace(/[ \t]+/g, ' ')
RECURSIVE CollapseBlanks(_, _)
CollapseBlanks(s, i) ==
  IF i > Len(s) THEN <<>>
  ELSE IF s[i] \in {" ", "\t"}
  THEN IF i > 1 /\ s[i - 1] \in {" ", "\t"} THEN CollapseBlanks(s, i + 1)
       ELSE <<" ">> \o CollapseBlanks(s, i + 1)
  ELSE <<s[i]>> \o CollapseBlanks(s, i + 1)

\* replace(/\n{3,}/g, '\n\n')
RECURSIVE CollapseNewlines(_, _)
CollapseNewlines(s, i) ==
  IF i > Len(s) THEN <<>>
  ELSE IF s[i] = "\n" /\ i > 2 /\ s[i - 1] = "\n" /\ s[i - 2] = "\n"
  THEN CollapseNewlines(s, i + 1)
  ELSE <<s[i]>> \o CollapseNewlines(s, i + 1)

\* split('\n').map(line => line.trim()).join('\n')
RECURSIVE TrimLines(_)
TrimLines(s) ==
  LET nl == {i \in 1..Len(s) : s[i] = "\n"}
  IN IF nl = {} THEN Trim(s)
     ELSE LET i == SetMin(nl)
          IN Trim(SubSeq(s, 1, i - 1)) \o <<"\n">> \o TrimLines(SubSeq(s, i + 1, Len(s)))

normalizeWhitespace(input) ==
  Trim(TrimLines(CollapseNewlines(CollapseBlanks(input, 1), 1)))

prepareInput(input) ==
  IF input = <<>> THEN <<>>
  ELSE LET prepared == normalizeWhitespace(sanitizeUserInput(input))
       IN IF Len(prepared) > MaxLength
          THEN Trim(SubSeq(prepared, 1, MaxLength))
          ELSE prepared

----------------------------------------------------------------------------
(* ErrorHandler *)

\* the substrings createErrorState looks for that an error message contains
MessageIncludes(text) ==
  CASE text = "Network error: Unable to connect to EME services" -> {"Network error"}
    [] text = "Gateway timeout" -> {"timeout"}
    [] OTHER -> {}

NoStatus == 0

AbortError    == [name |-> "AbortError", text |-> "The user aborted a request.", status |-> NoStatus]
TimeoutError  == [name |-> "Error", text |-> "Request timed out. Please try again.", status |-> NoStatus]
NetworkError  == [name |-> "Error", text |-> "Network error: Unable to connect to EME services", status |-> NoStatus]
InvalidError  == [name |-> "Error", text |-> "Invalid response format from server", status |-> NoStatus]
SignalError   == [name |-> "TypeError", text |-> "Cannot read properties of undefined (reading 'signal')", status |-> NoStatus]
HttpError(status, text) == [name |-> "Error", text |-> text, status |-> status]
NoError       == [name |-> "none", text |-> "", status |-> NoStatus]

createErrorState(error) ==
  LET inc == MessageIncludes(error.text)
  IN IF error.name = "AbortError"
     THEN [type |-> "network", message |-> "Requete annulee", code |-> NoStatus, retryable |-> FALSE]
     ELSE IF "timeout" \in inc \/ "Request timeout" \in inc
     THEN [type |-> "timeout", message |-> "La demande a pris trop de temps", code |-> NoStatus, retryable |-> TRUE]
     ELSE IF "Network error" \in inc \/ "fetch" \in inc
     THEN [type |-> "network", message |-> "Probleme de connexion reseau", code |-> NoStatus, retryable |-> TRUE]
     ELSE IF "validation" \in inc \/ "invalid" \in inc
     THEN [type |-> "validation", message |-> "Donnees invalides", code |-> NoStatus, retryable |-> FALSE]
     ELSE IF "storage" \in inc \/ "localStorage" \in inc
     THEN [type |-> "storage", message |-> "Erreur de stockage local", code |-> NoStatus, retryable |-> FALSE]
     ELSE IF error.status # NoStatus
     THEN LET status == error.status
          IN IF status >= 400 /\ status < 500
             THEN [type |-> "server",
                   message |-> IF status = 401 THEN "Authentification requise"
                               ELSE IF status = 403 THEN "Acces non autorise"
                               ELSE IF status = 404 THEN "Service non trouve"
                               ELSE IF status = 429 THEN "Trop de demandes, veuillez patienter"
                               ELSE "Erreur de requete",
                   code |-> status, retryable |-> (status = 429)]
             ELSE IF status >= 500
             THEN [type |-> "server", message |-> "Erreur du serveur EME", code |-> status, retryable |-> TRUE]
             ELSE [type |-> "server", message |-> error.text, code |-> status, retryable |-> TRUE]
     ELSE [type |-> "network", message |-> error.text, code |-> NoStatus, retryable |-> TRUE]

\* a user-facing text that carries the message of the error state
getUserFriendlyMessageWithRawText(errorState) ==
  <<"E", "\n", errorState.message>>

\* The fixed texts, abbreviated: a capital for the base message, a line break,
\* a small letter for the guidance, and a line break and "r" for the retry hint.
getUserFriendlyMessage(errorState) ==
  LET base == CASE errorState.type = "network"    -> <<"N","\n","n">>
                [] errorState.type = "timeout"    -> <<"T","\n","t">>
                [] errorState.type = "server"     ->
                     (IF errorState.code = 429 THEN <<"Q">>
                      ELSE IF errorState.code = 503 THEN <<"M">>
                      ELSE <<"S">>) \o <<"\n","s">>
                [] errorState.type = "validation" -> <<"V","\n","v">>
                [] errorState.type = "storage"    -> <<"L","\n","l">>
  IN IF errorState.retryable THEN base \o <<"\n","r">> ELSE base

UserFacingTexts ==
  {getUserFriendlyMessage([type |-> t, message |-> "", code |-> c, retryable |-> r]) :
     t \in {"network","timeout","server","validation","storage"},
     c \in {NoStatus, 404, 429, 500, 503}, r \in BOOLEAN}

\* isRetryable(error)
isRetryable(error) == createErrorState(error).retryable

\* getRetryDelay(error, attempt) in ms; jitter is Math.random() * 1000,
\* rounded down
getRetryDelay(error, attempt, jitter) ==
  LET errorState == createErrorState(error)
      baseDelay == IF errorState.type = "timeout" THEN 2000 ELSE 1000
      exponentialDelay == baseDelay * 2 ^ (attempt - 1)
  IN IF ~errorState.retryable THEN 0
     ELSE IF exponentialDelay + jitter < 30000 THEN exponentialDelay + jitter
     ELSE 30000

\* a log that keeps its oldest entries
logErrorKeepingOldest(log, errorState) ==
  LET pushed == Append(log, errorState)
  IN IF Len(pushed) > maxLogSize THEN SubSeq(pushed, 1, maxLogSize) ELSE pushed

logError(log, errorState) ==
  LET pushed == Append(log, errorState)
  IN IF Len(pushed) > maxLogSize
     THEN SubSeq(pushed, Len(pushed) - maxLogSize + 1, Len(pushed))
     ELSE pushed

\* the error states the other handlers log
ValidationErrorState ==
  [type |-> "validation", message |-> "Erreur de validation", code |-> NoStatus, retryable |-> FALSE]
StorageErrorState ==
  [type |-> "storage", message |-> "Erreur de stockage", code |-> NoStatus, retryable |-> FALSE]
ConnectivityErrorState ==
  [type |-> "network", message |-> "Connexion internet perdue", code |-> NoStatus, retryable |-> TRUE]

----------------------------------------------------------------------------
(* StorageManager *)

currentVersion == "1.0"

RECURSIVE SumLen(_)
SumLen(msgs) ==
  IF msgs = <<>> THEN 0 ELSE Len(Head(msgs).content) + SumLen(Tail(msgs))

\* JSON.stringify(data).length, scaled: one unit per message and per character
SerializedLength(data) == Len(data.messages) + SumLen(data.messages)

sanitizeStorageData(data) ==
  [data EXCEPT !.messages =
     [i \in 1..Len(data.messages) |->
        [data.messages[i] EXCEPT !.content = sanitizeUserInput(data.messages[i].content)]]]

\* an eviction that keeps the oldest messages
cleanOldMessagesKeepingOldest(data) ==
  LET kept == IF Len(data.messages) > KeepRecent
              THEN SubSeq(data.messages, 1, KeepRecent)
              ELSE data.messages
  IN [data EXCEPT !.messages = kept,
                  !.metadata = [totalMessages |-> Len(kept), totalCharacters |-> SumLen(kept)]]

cleanOldMessages(data) ==
  LET kept == IF Len(data.messages) > KeepRecent
              THEN SubSeq(data.messages, Len(data.messages) - KeepRecent + 1, Len(data.messages))
              ELSE data.messages
  IN [data EXCEPT !.messages = kept,
                  !.metadata = [totalMessages |-> Len(kept), totalCharacters |-> SumLen(kept)]]

\* the record saveChat hands to localStorage.setItem
RecordToStore(sid, msgs) ==
  LET data == [version |-> currentVersion, sessionId |-> sid, messages |-> msgs,
               metadata |-> [totalMessages |-> Len(msgs), totalCharacters |-> SumLen(msgs)]]
      sanitizedData == sanitizeStorageData(data)
  IN IF SerializedLength(sanitizedData) > MaxStorageSize
     THEN cleanOldMessages(sanitizedData)
     ELSE sanitizedData

\* a saveChat whose failed write loses the record that was stored
saveChatDroppingRecord(stored, sid, msgs, setItemOk) ==
  IF setItemOk THEN RecordToStore(sid, msgs) ELSE NoRecord

\* the value under the storage key after saveChat; setItemOk: setItem did not throw
saveChat(stored, sid, msgs, setItemOk) ==
  IF setItemOk THEN RecordToStore(sid, msgs) ELSE stored

\* what saveChat returns
saveChatReturns(setItemOk) == setItemOk

\* the empty text stored under the key: getItem returns '' and !stored holds
EmptyText == [empty |-> TRUE]
\* a stored text JSON.parse throws on
Unparseable == [unparseable |-> TRUE]
\* a stored text that parses to something that is no object (a number, null)
Scalar == [scalar |-> TRUE]
\* a parsed value that is no array
ObjectValue == <<[object |-> TRUE]>>
\* the null loadChat returns
Null == [null |-> TRUE]

\* field in data
Has(data, field) == field \in DOMAIN data

\* Array.isArray(value)
IsArray(value) == value # ObjectValue

\* !message.id || !message.timestamp || !message.role || typeof message.content !== 'string'
InvalidMessage(message) ==
  \/ ~Has(message, "id") \/ message.id = 0
  \/ ~Has(message, "timestamp") \/ message.timestamp = 0
  \/ ~Has(message, "role") \/ message.role = ""
  \/ ~Has(message, "content")

validateStorageData(data) ==
  /\ data # Scalar
  /\ Has(data, "version") /\ Has(data, "sessionId") /\ Has(data, "messages")
  /\ IsArray(data.messages)
  /\ \A i \in DOMAIN data.messages : ~InvalidMessage(data.messages[i])

\* !data.version || data.version !== this.currentVersion
NeedsMigration(data) == data.version = "" \/ data.version # currentVersion

\* a migration that rewrites whatever it is given
migrateDataAlways(data, newSessionId, now) ==
  [version |-> currentVersion,
   sessionId |-> IF data.sessionId = 0 THEN newSessionId ELSE data.sessionId,
   lastModified |-> now,
   messages |-> data.messages,
   metadata |-> [totalMessages |-> Len(data.messages),
                 totalCharacters |-> SumLen(data.messages)]]

\* what migrateData returns for a record that passed validateStorageData;
\* newSessionId is what generateSessionId would give, now is Date.now()
migrateData(data, newSessionId, now) ==
  IF data.version = ""
  THEN [version |-> currentVersion,
        sessionId |-> IF data.sessionId = 0 THEN newSessionId ELSE data.sessionId,
        lastModified |-> now,
        messages |-> data.messages,
        metadata |-> [totalMessages |-> Len(data.messages),
                      totalCharacters |-> SumLen(data.messages)]]
  ELSE data

\* loadChat on the stored text: the value it returns and the text it leaves
loadChat(stored, newSessionId, now, setItemOk) ==
  IF stored = NoRecord \/ stored = EmptyText
  THEN [value |-> Null, stored |-> stored]
  ELSE IF stored = Unparseable
  THEN [value |-> Null, stored |-> NoRecord]
  ELSE IF ~validateStorageData(stored)
  THEN [value |-> Null, stored |-> NoRecord]
  ELSE LET migratedData == migrateData(stored, newSessionId, now)
       IN [value |-> [messages |-> migratedData.messages,
                      sessionId |-> IF migratedData.sessionId = 0
                                    THEN newSessionId ELSE migratedData.sessionId,
                      version |-> currentVersion],
           stored |-> IF NeedsMigration(stored) /\ setItemOk
                      THEN migratedData ELSE stored]

----------------------------------------------------------------------------
(* ChatAPI *)

NoResponse == [response |-> <<>>, requestId |-> 0, valid |-> FALSE]

\* a sendMessage call: where it is suspended (fetch, delay) or how its promise
\* settled (resolved, rejected), its loop counter, the signal of its fetch, its
\* lastError, the response it resolved with, and the delays it has waited or
\* is waiting, in milliseconds
NewSend(sid) == [phase |-> "new", attempt |-> 0, signal |-> 0, sessionId |-> sid,
                 lastError |-> NoError, response |-> NoResponse, delays |-> <<>>]

\* the call has returned: its signal is gone
Finished(send) == [send EXCEPT !.signal = 0]

\* what is left of a call once its caller has taken the settled promise's value:
\* how it settled and how many attempts it made
Consumed(send) == [NewSend(0) EXCEPT !.phase = send.phase, !.attempt = send.attempt]

\* HTTP statuses of failed responses the model lets the server answer with
Statuses == {404, 429, 500, 503}

\* what one fetch can end in, abort apart
Outcomes ==
  {[kind |-> "ok", status |-> 200], [kind |-> "invalid", status |-> 200],
   [kind |-> "neterr", status |-> NoStatus], [kind |-> "timeout", status |-> NoStatus]}
  \cup {[kind |-> "http", status |-> st] : st \in Statuses}

\* what the server writes in the response field of a reply: plain text, or
\* text with markup
PlainReply == <<"o", "k">>
MarkupReply == <<"<", "q", ">", "k">>

\* the body of a well-formed reply to send k: the server answers the first
\* request of the instance with plain text and the second with markup
ResponseOf(k) ==
  [response |-> IF k % 2 = 1 THEN PlainReply ELSE MarkupReply,
   requestId |-> k, valid |-> TRUE]

\* the error makeRequest throws for an attempt that ends in outcome o
makeRequestError(o) ==
  CASE o.kind = "http"    -> HttpError(o.status, "Unknown server error")
    [] o.kind = "invalid" -> InvalidError
    [] o.kind = "neterr"  -> NetworkError
    [] o.kind = "timeout" -> TimeoutError

\* error.status >= 400 && error.status < 500
IsClientError(error) == error.status >= 400 /\ error.status < 500

\* a wait that does not grow with the attempt
backoffDelayConstant(attempt) == 1000

\* Math.min(1000 * Math.pow(2, attempt - 1), 10000): the wait after a failed attempt
backoffDelay(attempt) ==
  IF 1000 * 2 ^ (attempt - 1) < 10000 THEN 1000 * 2 ^ (attempt - 1) ELSE 10000

\* a retry loop that runs once too often
HasAttemptLeftOffByOne(attempt) == attempt <= maxRetries

\* the loop condition of the retry loop, for the attempt that follows attempt
HasAttemptLeft(attempt) == attempt < maxRetries

\* the catch block of sendMessage, for the error of the current attempt
sendMessageCatch(send, error) ==
  IF error.name = "AbortError" \/ IsClientError(error) \/ ~HasAttemptLeft(send.attempt)
  THEN Finished([send EXCEPT !.lastError = error, !.phase = "rejected"])
  ELSE [send EXCEPT !.lastError = error, !.phase = "delay", !.signal = 0,
                    !.delays = Append(send.delays, backoffDelay(send.attempt))]

\* one attempt of the retry loop: makeRequest(request, this.abortController.signal)
startAttempt(send, controller) ==
  LET s == [send EXCEPT !.attempt = send.attempt + 1]
  IN IF controller = 0
     THEN sendMessageCatch(s, SignalError)
     ELSE [s EXCEPT !.phase = "fetch", !.signal = controller]

\* AbortController.abort(): every fetch in flight on that signal rejects
abort(S, controller) ==
  [j \in DOMAIN S |->
     IF S[j].phase = "fetch" /\ S[j].signal = controller
     THEN Consumed(sendMessageCatch(S[j], AbortError))
     ELSE S[j]]

\* the signal a newly issued sendMessage takes for its first attempt
SignalForNewSend == nextController + 1

\* the synchronous part of sendMessage(request), up to the first fetch
sendMessage(sid) ==
  LET k == nextSend + 1
      cancelled == IF abortController # 0 THEN abort(sends, abortController) ELSE sends
  IN /\ nextSend' = k
     /\ nextController' = nextController + 1
     /\ abortController' = SignalForNewSend
     /\ sends' = Append(cancelled, startAttempt(NewSend(sid), abortController'))

\* the send after its fetch ended in outcome o
settle(send, k, o) ==
  IF o.kind = "ok"
  THEN Finished([send EXCEPT !.phase = "resolved", !.response = ResponseOf(k)])
  ELSE sendMessageCatch(send, makeRequestError(o))

Settled(send) == send.phase \in {"resolved", "rejected"}
Outstanding(send) == send.phase \in {"fetch", "delay"}

----------------------------------------------------------------------------
(* ChatbotContainer *)

NoMetadata == [requestId |-> 0]

\* no StorageManager call made yet by a direct caller
NoCall == [op |-> "none"]

WelcomeText == <<"W","\n","w">>

\* a ChatMessage; its timestamp (Date.now() at creation) orders messages as
\* their ids do
Message(id, role, content, metadata) ==
  [id |-> id, timestamp |-> id, role |-> role, content |-> content, metadata |-> metadata]

\* setLoading(loading) as far as it reaches the input field
setLoadingInput(loading) ==
  /\ textareaDisabled' = loading
  /\ sendButtonDisabled' = (loading \/ ~canSend(currentValue'))

\* an addMessage that saves before it pushes
addMessageSaveFirst(message, setItemOk) ==
  /\ messages' = Append(messages, message)
  /\ localStorage' = saveChat(localStorage, sessionId, messages, setItemOk)

\* an addMessage that puts the message in front
addMessagePrepending(message, setItemOk) ==
  /\ messages' = <<message>> \o messages
  /\ localStorage' = saveChat(localStorage, sessionId, messages', setItemOk)

\* addMessage: push, then saveChat
addMessage(message, setItemOk) ==
  /\ messages' = Append(messages, message)
  /\ localStorage' = saveChat(localStorage, sessionId, messages', setItemOk)

\* a continuation that drops the reply
onResolvedDroppingReply(response, setItemOk) ==
  /\ setItemOk
  /\ UNCHANGED <<nextId, messages, localStorage, errorLog>>

\* handleUserMessage after the awaited sendMessage resolved
onResolved(response, setItemOk) ==
  /\ nextId' = nextId + 1
  /\ addMessage(Message(nextId', "assistant", response.response,
                        [requestId |-> response.requestId]), setItemOk)
  /\ errorLog' = errorLog

\* handleUserMessage after the awaited sendMessage rejected
onRejected(error, setItemOk) ==
  LET errorState == createErrorState(error)
  IN /\ errorLog' = logError(errorLog, errorState)
     /\ nextId' = nextId + 1
     /\ addMessage(Message(nextId', "error", getUserFriendlyMessage(errorState),
                           NoMetadata), setItemOk)

\* a continuation without the finally block
resumeWithoutFinally(s, setItemOk) ==
  /\ IF s.phase = "resolved"
     THEN onResolved(s.response, setItemOk)
     ELSE onRejected(s.lastError, setItemOk)
  /\ awaiting' = 0
  /\ UNCHANGED <<inputVars, isLoading, sessionId, nextSession, submits, lastCall, returned>>

\* the continuation of handleUserMessage once the awaited send has settled as s
resume(s, setItemOk) ==
  /\ IF s.phase = "resolved"
     THEN onResolved(s.response, setItemOk)
     ELSE onRejected(s.lastError, setItemOk)
  /\ isLoading' = FALSE
  /\ awaiting' = 0
  /\ currentValue' = currentValue
  /\ setLoadingInput(FALSE)
  /\ UNCHANGED <<onSendHandler, sessionId, nextSession, submits, lastCall, returned>>

\* send k moves to s; a settled promise is handed to whoever awaits it
step(k, s, setItemOk) ==
  /\ sends' = [sends EXCEPT ![k] = IF Settled(s) THEN Consumed(s) ELSE s]
  /\ UNCHANGED <<abortController, nextSend, nextController>>
  /\ IF awaiting = k /\ Settled(s)
     THEN resume(s, setItemOk)
     ELSE /\ setItemOk
          /\ UNCHANGED <<inputVars, chatVars, localStorage, submits, lastCall, returned>>

\* a fetch of send k ends in outcome o
AttemptSettles(k, o, setItemOk) ==
  /\ sends[k].phase = "fetch"
  /\ step(k, settle(sends[k], k, o), setItemOk)

\* the backoff delay of send k elapses and its next attempt starts
DelayElapses(k, setItemOk) ==
  /\ sends[k].phase = "delay"
  /\ step(k, startAttempt(sends[k], abortController), setItemOk)

\* a guard that does not look at isLoading
AcceptsWhileLoading(message) == Trim(message) # <<>>

\* the guard of handleUserMessage
Accepts(message) == Trim(message) # <<>> /\ ~isLoading

\* handleUserMessage up to its await
handleUserMessage(message, setItemOk) ==
  /\ nextId' = nextId + 1
  /\ addMessage(Message(nextId', "user", Trim(message), NoMetadata), setItemOk)
  /\ isLoading' = TRUE
  /\ sendMessage(sessionId)
  /\ awaiting' = nextSend'
  /\ UNCHANGED <<sessionId, nextSession, errorLog>>

\* a clear that leaves the stored record in place
handleClearChatKeepingRecord(setItemOk) ==
  /\ nextId + 1 + (IF isLoading THEN 1 ELSE 0) <= MaxIds
  /\ nextSession' = nextSession + 1
  /\ sessionId' = nextSession'
  /\ nextId' = nextId + 1
  /\ messages' = <<Message(nextId', "assistant", WelcomeText, NoMetadata)>>
  /\ localStorage' = saveChat(localStorage, sessionId', messages', setItemOk)
  /\ currentValue' = <<>>
  /\ sendButtonDisabled' = TRUE
  /\ UNCHANGED <<textareaDisabled, onSendHandler, isLoading, awaiting, errorLog, apiVars, submits, lastCall, returned>>

\* handleClearChat: clearChat, createInitialState, inputField.clear, showWelcomeMessage
handleClearChat(setItemOk) ==
  /\ nextId + 1 + (IF isLoading THEN 1 ELSE 0) <= MaxIds
  /\ nextSession' = nextSession + 1
  /\ sessionId' = nextSession'
  /\ nextId' = nextId + 1
  /\ messages' = <<Message(nextId', "assistant", WelcomeText, NoMetadata)>>
  /\ localStorage' = saveChat(NoRecord, sessionId', messages', setItemOk)
  /\ currentValue' = <<>>
  /\ sendButtonDisabled' = TRUE
  /\ UNCHANGED <<textareaDisabled, onSendHandler, isLoading, awaiting, errorLog, apiVars, submits, lastCall, returned>>

----------------------------------------------------------------------------
(* InputField *)

\* the texts the user types or pastes; the textarea's maxlength keeps them
\* within MaxLength
Inputs ==
  { <<" ">>, <<"a"," "," ","b">>, <<"o","n","x","=">>, <<"<","b",">">> }

\* the data-question of a quick-question card
Question == <<"a"," ","b">>

\* setValue and the updateUI that follows it
setValue(value) ==
  /\ currentValue' = value
  /\ sendButtonDisabled' = ~validate(value).canSend

onSend ==
  /\ ~onSendHandler
  /\ onSendHandler' = TRUE
  /\ UNCHANGED <<currentValue, textareaDisabled, sendButtonDisabled, chatVars, localStorage, apiVars, submits, lastCall, returned>>

handleInput(value) ==
  /\ ~textareaDisabled
  /\ value # currentValue
  /\ setValue(value)
  /\ UNCHANGED <<textareaDisabled, onSendHandler, chatVars, localStorage, apiVars, submits, lastCall, returned>>

handleQuickQuestion ==
  /\ currentValue # Question
  /\ setValue(Question)
  /\ UNCHANGED <<textareaDisabled, onSendHandler, chatVars, localStorage, apiVars, submits, lastCall, returned>>

\* Escape, in the textarea or anywhere in the document: InputField.clear
handleGlobalKeydown ==
  /\ currentValue # <<>>
  /\ setValue(<<>>)
  /\ UNCHANGED <<textareaDisabled, onSendHandler, chatVars, localStorage, apiVars, submits, lastCall, returned>>

\* a handleSend that only refuses blank text
RefusesOnlyBlank(value) == isEmpty(Trim(value))

\* handleSend refuses the text
Refuses(value) == ~canSend(Trim(value))

handleSend(setItemOk) ==
  IF Refuses(currentValue)
  THEN /\ setItemOk
       /\ UNCHANGED vars
  ELSE LET preparedInput == prepareInput(Trim(currentValue))
       IN /\ currentValue' = <<>>
          /\ onSendHandler' = onSendHandler
          /\ IF onSendHandler
             THEN /\ submits < MaxSubmits
                  /\ submits' = submits + 1
                  /\ lastCall' = [loading |-> isLoading]
                  /\ returned' = returned
                  /\ IF Accepts(preparedInput)
                     THEN /\ nextId + 2 <= MaxIds
                          /\ handleUserMessage(preparedInput, setItemOk)
                          /\ textareaDisabled' = TRUE
                          /\ sendButtonDisabled' = TRUE
                     ELSE /\ setItemOk
                          /\ sendButtonDisabled' = ~canSend(<<>>)
                          /\ UNCHANGED <<textareaDisabled, chatVars, localStorage, apiVars>>
             ELSE /\ setItemOk
                  /\ sendButtonDisabled' = ~canSend(<<>>)
                  /\ UNCHANGED <<textareaDisabled, chatVars, localStorage, apiVars, submits, lastCall, returned>>

\* Enter in the textarea
handleKeyDown(setItemOk) ==
  /\ ~textareaDisabled
  /\ handleSend(setItemOk)

\* the form's submit event, from the send button
handleSubmit(setItemOk) ==
  /\ ~sendButtonDisabled
  /\ handleSend(setItemOk)

----------------------------------------------------------------------------
(* The application: construction and initialize() on an empty store *)

Init ==
  /\ currentValue = <<>>
  /\ textareaDisabled = FALSE
  /\ sendButtonDisabled = TRUE
  /\ onSendHandler = FALSE
  /\ sessionId = 1
  /\ nextSession = 1
  /\ nextId = 1
  /\ messages = <<Message(1, "assistant", WelcomeText, NoMetadata)>>
  /\ \E setItemOk \in BOOLEAN : localStorage = saveChat(NoRecord, sessionId, messages, setItemOk)
  /\ isLoading = FALSE
  /\ awaiting = 0
  /\ abortController = 0
  /\ sends = <<>>
  /\ nextSend = 0
  /\ nextController = 0
  /\ errorLog = <<>>
  /\ submits = 0
  /\ lastCall = [loading |-> FALSE]
  /\ returned = NoCall

Next ==
  \/ onSend
  \/ \E value \in Inputs : handleInput(value)
  \/ handleQuickQuestion
  \/ handleGlobalKeydown
  \/ \E setItemOk \in BOOLEAN : handleKeyDown(setItemOk)
  \/ \E setItemOk \in BOOLEAN : handleSubmit(setItemOk)
  \/ \E setItemOk \in BOOLEAN : handleClearChat(setItemOk)
  \/ \E k \in DOMAIN sends, o \in Outcomes, setItemOk \in BOOLEAN : AttemptSettles(k, o, setItemOk)
  \/ \E k \in DOMAIN sends, setItemOk \in BOOLEAN : DelayElapses(k, setItemOk)

Spec == Init /\ [][Next]_vars

\* makeRequest races every fetch against a timer of config.timeout, so an
\* attempt in flight settles
AttemptsSettle ==
  WF_vars(\E k \in DOMAIN sends, o \in Outcomes, setItemOk \in BOOLEAN :
            AttemptSettles(k, o, setItemOk))

\* delay(ms) resolves on a timer, so a backoff delay elapses
DelaysElapse ==
  WF_vars(\E k \in DOMAIN sends, setItemOk \in BOOLEAN : DelayElapses(k, setItemOk))

\* the application when timers fire
SpecLive == Spec /\ AttemptsSettle /\ DelaysElapse

----------------------------------------------------------------------------
(* The ChatAPI on its own: a caller that calls sendMessage and cancelRequest *)
(* whenever it likes and takes whatever each call settles with.              *)

clientSendMessage ==
  /\ nextSend < MaxClientSends
  /\ sendMessage(sessionId)
  /\ UNCHANGED <<inputVars, chatVars, localStorage, submits, lastCall, returned>>

cancelRequest ==
  /\ abortController # 0
  /\ sends' = abort(sends, abortController)
  /\ abortController' = 0
  /\ UNCHANGED <<nextSend, nextController, inputVars, chatVars, localStorage, submits, lastCall, returned>>

NextAPI ==
  \/ clientSendMessage
  \/ cancelRequest
  \/ \E k \in DOMAIN sends, o \in Outcomes : AttemptSettles(k, o, TRUE)
  \/ \E k \in DOMAIN sends : DelayElapses(k, TRUE)

SpecAPI == Init /\ [][NextAPI]_vars

----------------------------------------------------------------------------
(* The InputField wired to the container, with a caller of setValue in the  *)
(* place of the user: the textarea's maxlength bounds what is typed, and no  *)
(* text a caller sets.                                                       *)

\* the texts the caller sets: a text of the limit's length, and the same text
\* after a space, a character over the limit
FieldValues ==
  { [i \in 1..MaxLength |-> "a"], <<" ">> \o [i \in 1..MaxLength |-> "a"] }

clientSetValue(value) ==
  /\ value # currentValue
  /\ setValue(value)
  /\ UNCHANGED <<textareaDisabled, onSendHandler, chatVars, localStorage, apiVars, submits, lastCall, returned>>

NextField ==
  \/ onSend
  \/ \E value \in FieldValues : clientSetValue(value)
  \/ \E setItemOk \in BOOLEAN : handleKeyDown(setItemOk)
  \/ \E setItemOk \in BOOLEAN : handleSubmit(setItemOk)
  \/ \E k \in DOMAIN sends, o \in Outcomes, setItemOk \in BOOLEAN : AttemptSettles(k, o, setItemOk)
  \/ \E k \in DOMAIN sends, setItemOk \in BOOLEAN : DelayElapses(k, setItemOk)

SpecField == Init /\ [][NextField]_vars

----------------------------------------------------------------------------
(* The StorageManager on its own: a caller that calls saveChat, loadChat and *)
(* clearChat whenever it likes, on a store that starts with any text under   *)
(* the storage key.                                                          *)

\* a reply longer than any message typed in the input field
LongReply == <<"r", "e", "p", "l", "y", "!", "!">>

Contents == { <<"a", "b">>, LongReply }

\* the contents of the sessions handed to saveChat
Sessions ==
  UNION { [1..n -> Contents] : n \in 0..(KeepRecent + 1) }
  \cup { <<WelcomeText>>, <<WelcomeText, <<"a", "b">> >> }
  \cup { << <<"a", "&", "b">> >>, << <<"a", " ", "<", "b", ">">> >>,
         << <<"d", "d", "a", "t", "a", ":", "a", "t", "a", ":">> >> }

SessionOf(contents) ==
  [i \in 1..Len(contents) |->
    Message(i, IF contents[i] = <<"a", "b">> THEN "user" ELSE "assistant",
            contents[i], NoMetadata)]

GoodMessages == <<Message(1, "user", <<"a", "b">>, NoMetadata)>>

\* message lists validateStorageData refuses
BadMessages ==
  { ObjectValue,
    <<[timestamp |-> 1, role |-> "user", content |-> <<"a">>]>>,
    <<[id |-> 0, timestamp |-> 1, role |-> "user", content |-> <<"a">>]>>,
    <<[id |-> 1, role |-> "user", content |-> <<"a">>]>>,
    <<[id |-> 1, timestamp |-> 1, content |-> <<"a">>]>>,
    <<[id |-> 1, timestamp |-> 1, role |-> "user"]>> }

StaleMetadata == [totalMessages |-> 9, totalCharacters |-> 9]

Field(name, value) == name :> value
Absent == <<>>

\* the texts the storage key can hold when the page loads
StoredTexts ==
  { NoRecord, EmptyText, Unparseable, Scalar }
  \cup { v @@ sid @@ m @@ Field("metadata", StaleMetadata) :
           v \in { Absent } \cup { Field("version", x) : x \in { "", "0.9", currentVersion } },
           sid \in { Field("sessionId", x) : x \in { 0, 7 } },
           m \in { Field("messages", x) : x \in { <<>>, GoodMessages } } }
  \cup { Field("version", currentVersion) @@ Field("sessionId", 7) @@ m :
           m \in { Absent } \cup { Field("messages", x) : x \in BadMessages } }
  \cup { Field("version", currentVersion) @@ Field("messages", GoodMessages) }

\* the values generateSessionId and Date.now() can give
NewSessionIds == { 8, 9 }
Times == { 1, 2 }

InitStore ==
  /\ currentValue = <<>>
  /\ textareaDisabled = FALSE
  /\ sendButtonDisabled = TRUE
  /\ onSendHandler = FALSE
  /\ sessionId = 1
  /\ nextSession = 1
  /\ nextId = 1
  /\ messages = <<>>
  /\ localStorage \in StoredTexts
  /\ isLoading = FALSE
  /\ awaiting = 0
  /\ abortController = 0
  /\ sends = <<>>
  /\ nextSend = 0
  /\ nextController = 0
  /\ errorLog = <<>>
  /\ submits = 0
  /\ lastCall = [loading |-> FALSE]
  /\ returned = NoCall

storeVars == <<currentValue, textareaDisabled, sendButtonDisabled, onSendHandler,
               messages, sessionId, isLoading, awaiting, abortController, sends,
               nextSend, nextController, nextId, nextSession, errorLog, submits,
               lastCall>>

callSaveChat(contents, setItemOk) ==
  /\ localStorage' = saveChat(localStorage, sessionId, SessionOf(contents), setItemOk)
  /\ returned' = [op |-> "saveChat",
                  arg |-> [sessionId |-> sessionId, messages |-> SessionOf(contents)],
                  before |-> localStorage,
                  value |-> [ok |-> saveChatReturns(setItemOk)]]
  /\ UNCHANGED storeVars

callLoadChat(newSessionId, now, setItemOk) ==
  LET result == loadChat(localStorage, newSessionId, now, setItemOk)
  IN /\ localStorage' = result.stored
     /\ returned' = [op |-> "loadChat",
                     arg |-> [newSessionId |-> newSessionId, now |-> now,
                              setItemOk |-> setItemOk],
                     before |-> localStorage,
                     value |-> result.value]
     /\ UNCHANGED storeVars

callClearChat ==
  /\ localStorage' = NoRecord
  /\ returned' = [op |-> "clearChat", arg |-> Null, before |-> localStorage,
                  value |-> Null]
  /\ UNCHANGED storeVars

NextStore ==
  \/ \E contents \in Sessions, setItemOk \in BOOLEAN : callSaveChat(contents, setItemOk)
  \/ \E newSessionId \in NewSessionIds, now \in Times, setItemOk \in BOOLEAN :
       callLoadChat(newSessionId, now, setItemOk)
  \/ callClearChat

SpecStore == InitStore /\ [][NextStore]_vars

----------------------------------------------------------------------------
(* The ErrorHandler on its own: a caller that hands it errors, asks whether  *)
(* they are retryable and how long to wait.                                  *)

\* the errors makeRequest can throw: an abort, a timeout, a failed
\* connection, an invalid body, and failed responses whose message is the
\* default one or one the server sent
ErrorsToClassify ==
  { AbortError, TimeoutError, NetworkError, InvalidError }
  \cup { HttpError(status, text) :
           status \in Statuses, text \in { "Unknown server error", "Gateway timeout" } }

\* the values of Math.random() * 1000, rounded down
Jitters == { 0, 999 }

\* the attempts a caller asks the delay for
Attempts == 1..(maxRetries + 2)

callHandleChatError(error) ==
  /\ Len(errorLog) < MaxErrors
  /\ errorLog' = logError(errorLog, createErrorState(error))
  /\ returned' = [op |-> "handleChatError", arg |-> error,
                  value |-> getUserFriendlyMessage(createErrorState(error))]
  /\ UNCHANGED <<inputVars, messages, sessionId, isLoading, awaiting, nextId,
                 nextSession, apiVars, localStorage, submits, lastCall>>

callIsRetryable(error) ==
  /\ returned' = [op |-> "isRetryable", arg |-> error,
                  value |-> [retryable |-> isRetryable(error)]]
  /\ UNCHANGED <<inputVars, chatVars, apiVars, localStorage, submits, lastCall>>

callGetRetryDelay(error, attempt, jitter) ==
  /\ returned' = [op |-> "getRetryDelay",
                  arg |-> [error |-> error, attempt |-> attempt],
                  value |-> [delay |-> getRetryDelay(error, attempt, jitter)]]
  /\ UNCHANGED <<inputVars, chatVars, apiVars, localStorage, submits, lastCall>>

NextErrors ==
  \/ \E error \in ErrorsToClassify : callHandleChatError(error)
  \/ \E error \in ErrorsToClassify : callIsRetryable(error)
  \/ \E error \in ErrorsToClassify, attempt \in Attempts, jitter \in Jitters :
       callGetRetryDelay(error, attempt, jitter)

SpecErrors == Init /\ [][NextErrors]_vars

----------------------------------------------------------------------------
(* The log of the ErrorHandler: a caller that calls every handler, as often *)
(* as it likes.                                                             *)

LoggedErrors == { TimeoutError, HttpError(404, "Unknown server error") }

\* what a handler that logs errorState and returns value does; before is the
\* log it found
logs(op, arg, errorState, value) ==
  /\ errorLog' = logError(errorLog, errorState)
  /\ returned' = [op |-> op, arg |-> arg, before |-> errorLog,
                  value |-> [text |-> value]]

handleChatError(error) ==
  /\ logs("handleChatError", error, createErrorState(error),
          getUserFriendlyMessage(createErrorState(error)))
  /\ UNCHANGED <<inputVars, messages, sessionId, isLoading, awaiting, nextId,
                 nextSession, apiVars, localStorage, submits, lastCall>>

\* handleValidationError(field, message), for one field and message
handleValidationError ==
  /\ logs("handleValidationError", NoError, ValidationErrorState, "Erreur dans le champ")
  /\ UNCHANGED <<inputVars, messages, sessionId, isLoading, awaiting, nextId,
                 nextSession, apiVars, localStorage, submits, lastCall>>

\* handleStorageError(operation, error), for the operation 'save'
handleStorageError ==
  /\ logs("handleStorageError", NoError, StorageErrorState,
          "Impossible de sauvegarder la conversation")
  /\ UNCHANGED <<inputVars, messages, sessionId, isLoading, awaiting, nextId,
                 nextSession, apiVars, localStorage, submits, lastCall>>

handleConnectivityError(isOnline) ==
  /\ IF isOnline
     THEN /\ errorLog' = errorLog
          /\ returned' = [op |-> "handleConnectivityError", arg |-> NoError,
                          before |-> errorLog,
                          value |-> [text |-> "Connexion internet retablie"]]
     ELSE logs("handleConnectivityError", NoError, ConnectivityErrorState,
               "Connexion internet perdue")
  /\ UNCHANGED <<inputVars, messages, sessionId, isLoading, awaiting, nextId,
                 nextSession, apiVars, localStorage, submits, lastCall>>

NextLog ==
  \/ \E error \in LoggedErrors : handleChatError(error)
  \/ handleValidationError
  \/ handleStorageError
  \/ \E isOnline \in BOOLEAN : handleConnectivityError(isOnline)
  \/ \E error \in LoggedErrors : callIsRetryable(error)
  \/ \E error \in LoggedErrors, jitter \in Jitters : callGetRetryDelay(error, 1, jitter)

SpecLog == Init /\ [][NextLog]_vars

----------------------------------------------------------------------------
(* The InputValidator on its own: a caller that makes one call with any     *)
(* text.  The validator has no field a call changes, so a call made after   *)
(* another is a call made first.                                            *)

\* the texts handed to validate: every text of letters and blanks up to one
\* character over the maximum length, and texts in which an unsafe pattern
\* matches; the empty text stands for '' and for a value that is no string
ValidatorInputs ==
  UNION { [1..n -> { "a", " " }] : n \in 0..(MaxLength + 1) }
  \cup { <<"o","n","x","=">>, <<" ","o","n","x"," ","=">>, <<"u","r","l","(">>,
         <<"<","f","o","r","m">>, <<"o","n","x","=","a","a","a","a">>,
         <<"<","b",">">>, <<"a","&","b">>, <<"d","a","t","a",":">> }

callValidate(input) ==
  /\ returned = NoCall
  /\ returned' = [op |-> "validate", arg |-> input, value |-> validate(input)]
  /\ UNCHANGED <<inputVars, chatVars, apiVars, localStorage, submits, lastCall>>

callPrepareInput(input) ==
  /\ returned = NoCall
  /\ returned' = [op |-> "prepareInput", arg |-> input,
                  value |-> [prepared |-> prepareInput(input)]]
  /\ UNCHANGED <<inputVars, chatVars, apiVars, localStorage, submits, lastCall>>

callValidateForContext(input, context) ==
  /\ returned = NoCall
  /\ returned' = [op |-> "validateForContext", arg |-> input, context |-> context,
                  value |-> validateForContext(input, context)]
  /\ UNCHANGED <<inputVars, chatVars, apiVars, localStorage, submits, lastCall>>

\* the limits validators are constructed with
Limits == 1..MaxLimit

callGetCharacterCountStatus(maxLength, count) ==
  /\ returned = NoCall
  /\ returned' = [op |-> "getCharacterCountStatus",
                  arg |-> [maxLength |-> maxLength, count |-> count],
                  value |-> [status |-> getCharacterCountStatus(maxLength, count)]]
  /\ UNCHANGED <<inputVars, chatVars, apiVars, localStorage, submits, lastCall>>

NextValidator ==
  \/ \E input \in ValidatorInputs : callValidate(input)
  \/ \E input \in ValidatorInputs : callPrepareInput(input)
  \/ \E input \in ValidatorInputs, context \in Contexts :
       callValidateForContext(input, context)
  \/ \E maxLength \in Limits : \E count \in 0..(maxLength + 2) :
       callGetCharacterCountStatus(maxLength, count)

SpecValidator == Init /\ [][NextValidator]_vars

----------------------------------------------------------------------------
(* Properties *)

Last(seq) == seq[Len(seq)]

\* everything but the input field and the record of calls
guardedVars ==
  <<messages, sessionId, isLoading, awaiting, nextId, nextSession, errorLog,
    localStorage, abortController, sends, nextSend, nextController>>

\* the step is the one on which send k, awaited by handleUserMessage, settles as phase
SettlesAs(k, phase) ==
  awaiting = k /\ ~Settled(sends[k]) /\ sends'[k].phase = phase

\* the step appends exactly one message, of the given role
AppendsOne(role) ==
  /\ Len(messages') = Len(messages) + 1
  /\ SubSeq(messages', 1, Len(messages)) = messages
  /\ Last(messages').role = role

C2_SupersededSendIsCancelled ==
  [][\A k \in DOMAIN sends :
       k < Len(sends) =>
         /\ (sends'[k].phase = "fetch" => sends[k].phase = "fetch")
         /\ (sends'[k].phase = "resolved" => sends[k].phase = "resolved")]_vars

\* C3: when the request of an accepted submit fails terminally, an error message
\* with a user-facing text is appended and the input field holds the text the
\* user had submitted: with the user message still the last one of the session,
\* the field's text is one that prepares to that message's content.
C3_InputRetainedOnFailure ==
  [][\A k \in DOMAIN sends :
       SettlesAs(k, "rejected") =>
         /\ AppendsOne("error")
         /\ Last(messages').content \in UserFacingTexts
         /\ Last(messages).role = "user"
              => Trim(prepareInput(Trim(currentValue'))) = Last(messages).content]_vars

\* C4: a send makes at most maxRetries attempts; it fails with a 503 only once
\* all maxRetries attempts are made; and no attempt follows one that failed
\* with a 404, so a send whose first attempt fails with 404 makes that one
\* attempt.
C4_RetryBudget ==
  [][\A k \in DOMAIN sends :
       /\ sends'[k].attempt <= maxRetries
       /\ (SettlesAs(k, "rejected") /\ Last(errorLog').code = 503)
            => sends'[k].attempt = maxRetries
       /\ Outstanding(sends'[k]) => sends'[k].lastError.status # 404]_vars

\* one send failed with 404 after one attempt, another with 503 after maxRetries
C4_Witness ==
  \E j, k \in DOMAIN sends :
    /\ sends[j].phase = "rejected" /\ sends[j].attempt = 1
    /\ sends[k].phase = "rejected" /\ sends[k].attempt = maxRetries
    /\ Len(errorLog) = 2
    /\ {errorLog[1].code, errorLog[2].code} = {404, 503}

\* C5: a 429 is a transient failure: an attempt that fails with 429 while
\* attempts remain is retried, so no send fails with a 429 before its last
\* attempt.
C5_TooManyRequestsIsRetried ==
  [][\A k \in DOMAIN sends :
       (SettlesAs(k, "rejected") /\ Last(errorLog').code = 429)
         => sends'[k].attempt = maxRetries]_vars

\* C6: a send that fails on earlier attempts and succeeds on a later one adds
\* exactly one assistant message, the reply, and no error message: while it
\* retries nothing is appended or logged, and when it resolves the reply is the
\* one message appended.
C6_RetryThenSuccess ==
  [][\A k \in DOMAIN sends :
       /\ (awaiting = k /\ sends'[k] # sends[k] /\ Outstanding(sends'[k]))
            => UNCHANGED <<messages, errorLog>>
       /\ SettlesAs(k, "resolved")
            => /\ AppendsOne("assistant")
               /\ Last(messages').content = ResponseOf(k).response
               /\ Last(messages).role # "error"
               /\ errorLog' = errorLog]_vars

\* a send resolved on its second attempt and its reply is the last message
C6_Witness ==
  /\ sends # <<>>
  /\ Last(sends).phase = "resolved" /\ Last(sends).attempt = 2
  /\ Last(messages).role = "assistant"
  /\ Last(messages).metadata.requestId = Len(sends)
  /\ errorLog = <<>>

\* a submit event: Enter in the textarea or the form's submit
SubmitEvent ==
  \E setItemOk \in BOOLEAN : handleKeyDown(setItemOk) \/ handleSubmit(setItemOk)

C8_UserMessageStoredBeforeRequest ==
  [][(nextSend' # nextSend)
       => /\ AppendsOne("user")
          /\ localStorage' # NoRecord
          /\ localStorage'.sessionId = sessionId
          /\ Last(localStorage'.messages).id = Last(messages').id]_vars

\* C8, as the code has it: when the request is issued the user message is the
\* last message of the session, and a save has been tried: the stored record is
\* either the one it was (the write failed) or one of this session that ends
\* with the user message.
C8_UserMessageAppendedAndSaveTried ==
  [][(nextSend' # nextSend)
       => /\ AppendsOne("user")
          /\ Last(messages').content = Trim(prepareInput(Trim(currentValue)))
          /\ \/ localStorage' = localStorage
             \/ /\ localStorage' # NoRecord
                /\ localStorage'.sessionId = sessionId
                /\ Last(localStorage'.messages).id = Last(messages').id]_vars

\* a request is in flight whose user message is in the session but not stored
C8_Witness ==
  /\ awaiting # 0 /\ sends[awaiting].phase = "fetch"
  /\ Last(messages).role = "user"
  /\ localStorage = NoRecord

\* C9: a request issued before a clear adds nothing to the session the clear
\* started: when it settles, no message is appended and nothing is stored.
C9_ClearCancelsRequest ==
  [][\A k \in DOMAIN sends :
       (awaiting = k /\ ~Settled(sends[k]) /\ Settled(sends'[k])
          /\ sends[k].sessionId # sessionId)
         => UNCHANGED <<messages, localStorage>>]_vars

Saved == returned.op = "saveChat" /\ returned.value.ok
Loaded == returned.op = "loadChat"
\* the latest saveChat wrote every message it was given
NoEviction == Len(localStorage.messages) = Len(returned.arg.messages)

\* C11: after a saveChat that evicted nothing, loadChat returns a session
\* whose messages equal the saved session's messages.
C11_RoundTrip ==
  (Saved /\ NoEviction) =>
    \A newSessionId \in NewSessionIds, now \in Times, setItemOk \in BOOLEAN :
      LET loaded == loadChat(localStorage, newSessionId, now, setItemOk).value
      IN loaded # Null /\ loaded.messages = returned.arg.messages

\* a message lacking id, timestamp, role or content
LacksField(message) ==
  ~Has(message, "id") \/ ~Has(message, "timestamp")
    \/ ~Has(message, "role") \/ ~Has(message, "content")

\* a text under the storage key that is present but malformed
Malformed(text) ==
  /\ text # NoRecord
  /\ \/ text \in { EmptyText, Unparseable, Scalar }
     \/ ~Has(text, "version") \/ ~Has(text, "sessionId") \/ ~Has(text, "messages")
     \/ text.messages = ObjectValue
     \/ \E i \in DOMAIN text.messages : LacksField(text.messages[i])

\* C12: loadChat on a present but malformed text returns null and leaves no
\* record under the storage key.
C12_LoadFailsClosed ==
  (Loaded /\ Malformed(returned.before)) =>
    (returned.value = Null /\ localStorage = NoRecord)

\* a parsed record, whatever its fields
IsRecord(text) == text \notin { NoRecord, EmptyText, Unparseable, Scalar }

\* a record whose version is absent or is not the current one
OldVersion(text) ==
  IsRecord(text) /\ (~Has(text, "version") \/ text.version # currentVersion)

\* the summary fields are those of the messages stored with them
SummaryRecomputed(record) ==
  /\ record.metadata.totalMessages = Len(record.messages)
  /\ record.metadata.totalCharacters = SumLen(record.messages)

\* C13: loadChat on a record whose version is absent or not current returns
\* a session, and the record under the storage key afterwards (the write
\* having succeeded) has the current version and recomputed summary fields.
C13_LoadMigrates ==
  (Loaded /\ OldVersion(returned.before) /\ returned.arg.setItemOk) =>
    /\ returned.value # Null
    /\ IsRecord(localStorage)
    /\ localStorage.version = currentVersion
    /\ SummaryRecomputed(localStorage)

\* C14: migrating a migrated record gives the same record as migrating once,
\* loading again after a migration leaves the store as it is, and a record
\* that has the current version is neither changed nor rewritten in the store.
C14_MigrationIdempotent ==
  (Loaded /\ returned.value # Null) =>
    LET once == migrateData(returned.before, returned.arg.newSessionId, returned.arg.now)
    IN /\ \A newSessionId \in NewSessionIds, now \in Times :
            migrateData(once, newSessionId, now) = once
       /\ returned.arg.setItemOk =>
            \A newSessionId \in NewSessionIds, now \in Times, setItemOk \in BOOLEAN :
              loadChat(localStorage, newSessionId, now, setItemOk).stored = localStorage
       /\ returned.before.version = currentVersion =>
            (once = returned.before /\ localStorage = returned.before)

\* a record of a falsy version was loaded and is stored in the current version
C14_Witness ==
  /\ Loaded /\ returned.value # Null
  /\ returned.before.version = ""
  /\ localStorage.version = currentVersion
  /\ localStorage # returned.before

\* the session given to the latest saveChat serializes to more than the cap
OverCap == SerializedLength(sanitizeStorageData(returned.arg)) > MaxStorageSize

\* the last n elements of seq, all of them if there are fewer
LastN(seq, n) ==
  IF Len(seq) > n THEN SubSeq(seq, Len(seq) - n + 1, Len(seq)) ELSE seq

\* C15: when the session serializes to more than the cap, a successful
\* saveChat stores the most recent KeepRecent messages of the session (all
\* of them if there are fewer), sanitized and in their order, and a saveChat
\* whose one write fails leaves the store as it was.
C15_OverCapKeepsMostRecent ==
  (returned.op = "saveChat" /\ OverCap) =>
    IF returned.value.ok
    THEN /\ localStorage.messages =
              LastN(sanitizeStorageData(returned.arg).messages, KeepRecent)
         /\ Len(localStorage.messages) <= KeepRecent
    ELSE localStorage = returned.before

\* a session over the cap with more than KeepRecent messages was saved
C15_Witness ==
  /\ Saved /\ OverCap
  /\ Len(returned.arg.messages) > KeepRecent
  /\ Len(localStorage.messages) = KeepRecent
  /\ localStorage.messages[1].id = returned.arg.messages[2].id

\* C16: the record a successful saveChat leaves under the storage key
\* serializes to no more than the cap.
C16_RecordWithinCap ==
  Saved => SerializedLength(localStorage) <= MaxStorageSize

\* a handler of the container runs with the write of its saveChat failing
WriteFails ==
  \/ handleKeyDown(FALSE)
  \/ handleSubmit(FALSE)
  \/ \E k \in DOMAIN sends, o \in Outcomes : AttemptSettles(k, o, FALSE)
  \/ \E k \in DOMAIN sends : DelayElapses(k, FALSE)

\* C17: when the write of a save fails while a message is added, the handler
\* runs to its end, the stored record is left as it was and the session holds
\* the added message.
C17_FailedWriteKeepsSession ==
  [][(messages' # messages /\ WriteFails)
       => /\ localStorage' = localStorage
          /\ Len(messages') = Len(messages) + 1
          /\ SubSeq(messages', 1, Len(messages)) = messages]_vars

\* no write has ever succeeded, and two submits were accepted all the same
C17_Witness ==
  /\ localStorage = NoRecord
  /\ nextSend = 2
  /\ Len(messages) >= 3

\* C18: in the record under the storage key, metadata.totalMessages is the
\* number of stored messages and metadata.totalCharacters is the sum of the
\* lengths of their contents.
C18_SummaryMatchesRecord ==
  localStorage # NoRecord => SummaryRecomputed(localStorage)

\* the sendMessage calls with a fetch in flight
InFlight == { k \in DOMAIN sends : sends[k].phase = "fetch" }

\* C19: at most one fetch of the ChatAPI instance is in flight.
C19_AtMostOneInFlight == Cardinality(InFlight) <= 1

\* C20: a step that cancels (cancelRequest, or a sendMessage that supersedes)
\* settles the promise of no call that was outstanding: its caller sees
\* neither a response nor an error.
C20_CancelSettlesNothing ==
  [][(abortController' # abortController)
       => \A k \in DOMAIN sends :
            Outstanding(sends[k]) => ~Settled(sends'[k])]_vars

\* the step on which send k, awaited by handleUserMessage, is rejected after
\* a fetch that ended in an outcome of the given kind, and the failure is logged
RejectedAfter(k, kind) ==
  /\ errorLog' # errorLog
  /\ awaiting = k
  /\ \E setItemOk \in BOOLEAN :
       AttemptSettles(k, [kind |-> kind, status |-> NoStatus], setItemOk)

\* C21: when a send is rejected because its last attempt timed out, the
\* failure the container logs has type timeout and is retryable.
C21_TimeoutIsTimeout ==
  [][\A k \in DOMAIN sends :
       RejectedAfter(k, "timeout")
         => (Last(errorLog').type = "timeout" /\ Last(errorLog').retryable)]_vars

\* C22: a reply whose body is not valid adds no assistant message, and when
\* the send is rejected for it the failure the container logs has type server.
C22_InvalidBodyIsServerFailure ==
  [][\A k \in DOMAIN sends :
       /\ (\E setItemOk \in BOOLEAN :
             AttemptSettles(k, [kind |-> "invalid", status |-> 200], setItemOk))
            => ~AppendsOne("assistant")
       /\ (/\ errorLog' # errorLog
           /\ awaiting = k
           /\ \E setItemOk \in BOOLEAN :
                AttemptSettles(k, [kind |-> "invalid", status |-> 200], setItemOk))
            => Last(errorLog').type = "server"]_vars

\* the error state the latest handleChatError logged
Classified == Last(errorLog)

\* C23: an error that carries an HTTP status is classified as type server,
\* retryable exactly when the status is 429 or at least 500, whatever its text.
C23_StatusDecidesClassification ==
  (returned.op = "handleChatError" /\ returned.arg.status # NoStatus) =>
    /\ Classified.type = "server"
    /\ Classified.retryable = (returned.arg.status = 429 \/ returned.arg.status >= 500)

\* two error states of the same type, code and retryable flag
SameClass(a, b) == a.type = b.type /\ a.code = b.code /\ a.retryable = b.retryable

\* C24: the text handleChatError returns is one of the fixed texts, and it is
\* the text of every error that is classified with the same type, code and
\* retryable flag, whatever the message of that error.
C24_TextFromClassOnly ==
  (returned.op = "handleChatError") =>
    /\ returned.value \in UserFacingTexts
    /\ \A error \in ErrorsToClassify :
         SameClass(createErrorState(error), Classified)
           => getUserFriendlyMessage(createErrorState(error)) = returned.value

\* an error whose raw text is the message of its error state was handled, and
\* another error with another raw text is classified the same
C24_Witness ==
  /\ returned.op = "handleChatError"
  /\ returned.arg = TimeoutError
  /\ Classified.message = TimeoutError.text
  /\ SameClass(createErrorState(InvalidError), Classified)
  /\ createErrorState(InvalidError).message # Classified.message

\* sendMessage goes on to another attempt after its first attempt failed with
\* the error
WouldRetry(error) ==
  sendMessageCatch(startAttempt(NewSend(0), 1), error).phase = "delay"

\* C25: isRetryable(error) holds exactly when sendMessage retries the error,
\* and getRetryDelay(error, attempt) is the wait of sendMessage after that
\* attempt.
C25_SameRetryPolicy ==
  /\ returned.op = "isRetryable"
       => returned.value.retryable = WouldRetry(returned.arg)
  /\ (returned.op = "getRetryDelay" /\ WouldRetry(returned.arg.error))
       => returned.value.delay = backoffDelay(returned.arg.attempt)

\* the contents handleSend hands over for the texts a user can have in the field
PreparedTexts == { Trim(prepareInput(Trim(value))) : value \in Inputs \cup { Question } }

\* C26: every user message of the session holds a prepared text and every
\* assistant message holds content that sanitizeAIResponse leaves as it is.
C26_ContentsAreSanitized ==
  \A i \in DOMAIN messages :
    /\ messages[i].role = "user" => messages[i].content \in PreparedTexts
    /\ messages[i].role = "assistant"
         => messages[i].content = sanitizeAIResponse(messages[i].content)

IsPrefix(s, t) == Len(s) <= Len(t) /\ SubSeq(t, 1, Len(s)) = s

\* C27: on every step that is not handleClearChat, the messages of the
\* session before the step are a prefix of the messages after it.
C27_AppendOnly ==
  [][IsPrefix(messages, messages') \/ \E setItemOk \in BOOLEAN : handleClearChat(setItemOk)]_vars

\* a session that has grown by a submit, its reply and a second submit
C27_Witness ==
  /\ Len(messages) >= 4
  /\ messages[2].role = "user" /\ messages[3].role = "assistant"
  /\ messages[4].role = "user"

Validated == returned.op = "validate"

\* the words an error text of validate contains
ErrorMentions(text) ==
  CASE text = "Message cannot be empty" -> { "empty" }
    [] text = "Message exceeds maximum length" -> { "maximum length" }
    [] text = "Message contains potentially unsafe content" -> { "unsafe content" }
    [] OTHER -> {}

SomeErrorMentions(result, word) ==
  \E i \in DOMAIN result.errors : word \in ErrorMentions(result.errors[i])

Accepted(result) == result.canSend /\ result.isValid /\ result.errors = <<>>

\* what validate answers for a text over the maximum length
RefusedAsTooLong(result) ==
  ~result.canSend /\ ~result.isValid /\ SomeErrorMentions(result, "maximum length")

C30_BlankIsRefusedAsEmpty ==
  (Validated /\ Trim(returned.arg) = <<>>) =>
    (~returned.value.canSend /\ SomeErrorMentions(returned.value, "empty"))

Prepared == returned.op = "prepareInput"

\* C31: for a text no longer than the maximum length, prepareInput gives a
\* text no longer than the maximum length in which no unsafe pattern matches.
C31_PreparedIsSafe ==
  (Prepared /\ Len(returned.arg) <= MaxLength) =>
    /\ Len(returned.value.prepared) <= MaxLength
    /\ ~detectXSSPatterns(returned.value.prepared)

\* C32: for a text of one character or more, no longer than the maximum length
\* and not blank, prepareInput gives a text that is not empty.
C32_PreparedIsNotEmpty ==
  (Prepared /\ Len(returned.arg) \in 1..MaxLength /\ Trim(returned.arg) # <<>>) =>
    returned.value.prepared # <<>>

Counted == returned.op = "getCharacterCountStatus"

\* C33: for a validator of any limit and any count, the status is exceeded
\* exactly above the limit, critical exactly from floor(0.95 limit) to the
\* limit, warning exactly from floor(0.875 limit) to below floor(0.95 limit)
\* and normal exactly below floor(0.875 limit); and validate accepts a text
\* whose count is in the warning or critical tier when the text is not blank
\* and no unsafe pattern matches it.
C33_TiersAreAdvisory ==
  /\ Counted =>
       LET limit    == returned.arg.maxLength
           count    == returned.arg.count
           status   == returned.value.status
           warning  == (limit * 875) \div 1000
           critical == (limit * 95) \div 100
       IN /\ status = "exceeded" <=> count > limit
          /\ status = "critical" <=> (critical <= count /\ count <= limit)
          /\ status = "warning" <=> (warning <= count /\ count < critical)
          /\ status = "normal" <=> (count < warning /\ count < critical)
  /\ (/\ Validated
      /\ getCharacterCountStatus(MaxLength, returned.value.characterCount)
            \in { "warning", "critical" }
      /\ Trim(returned.arg) # <<>>
      /\ ~detectXSSPatterns(returned.arg))
       => returned.value.canSend

\* a count below the limit whose status is warning
C33_Witness ==
  /\ Counted
  /\ returned.value.status = "warning"
  /\ returned.arg.count < returned.arg.maxLength

\* min(base * 2^(k-1), cap) with base 1000 ms and cap 10000 ms
CappedExponential(k) ==
  LET exponential == 1000 * 2 ^ (k - 1)
  IN IF exponential <= 10000 THEN exponential ELSE 10000

\* C34: the delays of a sendMessage call are min(1000 * 2^(k-1), 10000) after
\* its k-th attempt, so they never decrease and never exceed 10000, one delay
\* follows each failed attempt but the last one the call may make, and none
\* follows that one.
C34_BackoffIsCappedExponential ==
  /\ \A k \in DOMAIN sends :
       LET send == sends[k]
       IN Outstanding(send) =>
            /\ Len(send.delays) =
                 (IF send.phase = "delay" THEN send.attempt ELSE send.attempt - 1)
            /\ Len(send.delays) < maxRetries
            /\ \A i \in DOMAIN send.delays :
                 /\ send.delays[i] = CappedExponential(i)
                 /\ send.delays[i] <= 10000
                 /\ i > 1 => send.delays[i - 1] <= send.delays[i]
  /\ \A attempt \in 1..(maxRetries + 3) :
       /\ backoffDelay(attempt) = CappedExponential(attempt)
       /\ backoffDelay(attempt) <= backoffDelay(attempt + 1)

\* a call waits its last delay: the one before its final attempt
C34_Witness ==
  \E k \in DOMAIN sends :
    /\ sends[k].phase = "delay"
    /\ sends[k].attempt = maxRetries - 1
    /\ sends[k].delays = <<1000, 2000>>

\* send k has settled, the message for its outcome is the last one and the
\* container is not loading
Terminal(k) ==
  /\ k \in DOMAIN sends
  /\ awaiting = 0
  /\ ~isLoading
  /\ ~textareaDisabled
  /\ Settled(sends[k])
  /\ Last(messages).role = (IF sends[k].phase = "resolved" THEN "assistant" ELSE "error")

\* C35: when timers fire, every submit the container accepts reaches a
\* terminal outcome: its send settles, the container stops loading, and on the
\* way exactly one message is appended for it, an assistant message if the
\* send resolved and an error message if it was rejected, on the step that
\* resets the loading state; nothing is appended while the container loads.
C35_AcceptedSubmitTerminates ==
  /\ \A k \in 1..MaxSubmits : (awaiting = k /\ isLoading) ~> Terminal(k)
  /\ [][/\ (isLoading /\ isLoading') => Len(messages') <= Len(messages)
        /\ (isLoading /\ ~isLoading') =>
             /\ awaiting' = 0
             /\ Settled(sends'[awaiting])
             /\ AppendsOne(IF sends'[awaiting].phase = "resolved"
                           THEN "assistant" ELSE "error")]_vars

\* the first submit's send was rejected after its last attempt, the error
\* message is the last message and the container is not loading
C35_Witness ==
  /\ nextSend = 1
  /\ Terminal(1)
  /\ sends[1].phase = "rejected" /\ sends[1].attempt = maxRetries
  /\ submits = 1

\* the sendMessage calls of the container that have not settled
OutstandingSends == { k \in DOMAIN sends : Outstanding(sends[k]) }

\* C36: a handleUserMessage call made while the container is loading appends
\* no message, stores nothing and issues no request, and at any time at most
\* one sendMessage call of the container is outstanding, the awaited one.
C36_OneRequestWhileLoading ==
  /\ [][(submits' # submits /\ isLoading)
         => UNCHANGED <<messages, localStorage, sends, nextSend, abortController,
                        isLoading, awaiting>>]_vars
  /\ [](/\ Cardinality(OutstandingSends) <= 1
        /\ OutstandingSends = (IF isLoading THEN { awaiting } ELSE {}))

\* a second submit reached the container while the first one's send was
\* waiting out a backoff delay, and there is still one user message
C36_Witness ==
  /\ submits = 2 /\ lastCall.loading
  /\ nextSend = 1 /\ sends[1].phase = "delay"
  /\ Len(messages) = 2 /\ Last(messages).role = "user"

\* the contents of the messages of a record
ContentsOf(record) == [i \in DOMAIN record.messages |-> record.messages[i].content]

\* C37: after a saveChat, loading the session and saving what was loaded
\* writes a record with the same message contents.
C37_SaveLoadSaveIsStable ==
  Saved =>
    \A newSessionId \in NewSessionIds, now \in Times, setItemOk \in BOOLEAN :
      LET loaded == loadChat(localStorage, newSessionId, now, setItemOk).value
      IN /\ loaded # Null
         /\ ContentsOf(saveChat(localStorage, loaded.sessionId, loaded.messages, TRUE))
              = ContentsOf(localStorage)

\* C38: with a handler registered, Enter or the form's submit hands the text
\* to the handler exactly when canSend is true of the text in the field.
C38_SendsIffCanSend ==
  [][(onSendHandler /\ SubmitEvent)
       => (submits' # submits <=> canSend(currentValue))]_vars

\* C39: a result of validate or of validateForContext, in any context, with
\* errors is not valid, a result that is not valid cannot be sent, and canSend
\* is: valid and characterCount above 0.
C39_ResultIsConsistent ==
  returned.op \in { "validate", "validateForContext" } =>
    LET result == returned.value
    IN /\ result.errors # <<>> => ~result.isValid
       /\ ~result.isValid => ~result.canSend
       /\ result.canSend <=> (result.isValid /\ result.characterCount > 0)

\* C40: the error log never holds more than maxLogSize entries; a step that
\* changes it pushes one entry at its end and drops the oldest entry when that
\* makes one too many, so the log holds the most recent entries in their
\* order; a handleChatError call pushes the state of its error, also onto a
\* full log; isRetryable and getRetryDelay leave the log as it is.
C40_LogKeepsMostRecent ==
  /\ [](Len(errorLog) <= maxLogSize)
  /\ [][/\ errorLog' # errorLog
             => errorLog' = LastN(Append(errorLog, Last(errorLog')), maxLogSize)
        /\ (returned'.op = "handleChatError" /\ returned'.before = errorLog)
             => errorLog' = LastN(Append(errorLog, createErrorState(returned'.arg)),
                                  maxLogSize)
        /\ returned'.op \in { "isRetryable", "getRetryDelay" }
             => errorLog' = errorLog]_vars

\* handleChatError found a full log: the oldest entry is gone and the new one
\* is the last
C40_Witness ==
  /\ returned.op = "handleChatError"
  /\ Len(returned.before) = maxLogSize
  /\ errorLog = Tail(returned.before) \o <<createErrorState(returned.arg)>>
  /\ Head(returned.before) # Head(errorLog)

====
